---- MODULE Spec2Model ----
(***************************************************************************)
(* Model of osx_cal_add_event.py: a command-line run that resolves a      *)
(* calendar by name, parses a start date, resolves an end (explicit       *)
(* end-date, start + duration, or the start itself), validates the pair   *)
(* and hands the event to the calendar store.                              *)
(*                                                                         *)
(* Strings are sequences of one-character strings, so that strip, the 'in' *)
(* test, split, indexing, int() and strptime are computed on characters.   *)
(* A datetime is represented by its minute count on the proleptic          *)
(* Gregorian calendar (toordinal() * 1440 + hour * 60 + minute); a         *)
(* timedelta by its (signed) number of minutes.                            *)
(***************************************************************************)
EXTENDS Integers, Sequences, FiniteSets, TLC

(***************************************************************************)
(* Character-level helpers (Python str operations).                        *)
(***************************************************************************)
DigitChars == <<"0", "1", "2", "3", "4", "5", "6", "7", "8", "9">>

IsDigit(c) == \E i \in 1..Len(DigitChars) : DigitChars[i] = c

DigitVal(c) == (CHOOSE i \in 1..Len(DigitChars) : DigitChars[i] = c) - 1

IsSpace(c) == c \in {" ", "\t", "\n"}

RECURSIVE LStrip(_)
LStrip(s) == IF s # <<>> /\ IsSpace(Head(s)) THEN LStrip(Tail(s)) ELSE s

RECURSIVE RStrip(_)
RStrip(s) ==
    IF s # <<>> /\ IsSpace(s[Len(s)]) THEN RStrip(SubSeq(s, 1, Len(s) - 1)) ELSE s

\* str.strip()
Strip(s) == RStrip(LStrip(s))

\* c in s
Contains(s, c) == \E i \in 1..Len(s) : s[i] = c

\* s.split(':') : the pieces between the colons, in order
RECURSIVE SplitColon(_)
SplitColon(s) ==
    IF ~Contains(s, ":") THEN <<s>>
    ELSE LET i == CHOOSE k \in 1..Len(s) : s[k] = ":" /\ \A j \in 1..(k - 1) : s[j] # ":"
         IN  <<SubSeq(s, 1, i - 1)>> \o SplitColon(SubSeq(s, i + 1, Len(s)))

RECURSIVE DigitsValue(_)
DigitsValue(ds) ==
    IF ds = <<>> THEN 0
    ELSE 10 * DigitsValue(SubSeq(ds, 1, Len(ds) - 1)) + DigitVal(ds[Len(ds)])

\* int(s): surrounding whitespace is ignored, one optional sign, then decimal
\* digits in which single underscores may separate digits.  ok = FALSE stands
\* for the ValueError int() raises.
PyInt(s) ==
    LET t    == Strip(s)
        sgn  == IF t # <<>> /\ t[1] \in {"+", "-"} THEN t[1] ELSE ""
        body == IF sgn = "" THEN t ELSE Tail(t)
        wellFormed ==
            /\ body # <<>>
            /\ \A i \in 1..Len(body) : IsDigit(body[i]) \/ body[i] = "_"
            /\ body[1] # "_"
            /\ body[Len(body)] # "_"
            /\ \A i \in 1..(Len(body) - 1) : ~(body[i] = "_" /\ body[i + 1] = "_")
        digits == SelectSeq(body, IsDigit)
    IN  IF wellFormed
        THEN [ok |-> TRUE, val |-> IF sgn = "-" THEN 0 - DigitsValue(digits) ELSE DigitsValue(digits)]
        ELSE [ok |-> FALSE, val |-> 0]

(***************************************************************************)
(* datetime arithmetic.                                                    *)
(***************************************************************************)
IsLeap(y) == (y % 4 = 0) /\ ((y % 100 # 0) \/ (y % 400 = 0))

DaysInMonth(y, m) ==
    IF m = 2 THEN (IF IsLeap(y) THEN 29 ELSE 28)
    ELSE IF m \in {4, 6, 9, 11} THEN 30 ELSE 31

RECURSIVE DaysBeforeMonth(_, _)
DaysBeforeMonth(y, m) ==
    IF m = 1 THEN 0 ELSE DaysBeforeMonth(y, m - 1) + DaysInMonth(y, m - 1)

\* datetime(y, m, d).toordinal()
ToOrdinal(y, m, d) ==
    LET p == y - 1
    IN  p * 365 + (p \div 4) - (p \div 100) + (p \div 400) + DaysBeforeMonth(y, m) + d

\* the representation of datetime(y, m, d, h, mi)
DateTime(y, m, d, h, mi) == ToOrdinal(y, m, d) * 1440 + h * 60 + mi

\* datetime.timedelta(hours=h, minutes=mi), in minutes
TimeDelta(h, mi) == h * 60 + mi

(***************************************************************************)
(* datetime.strptime for the three formats the program uses.  The regular  *)
(* expression strptime builds matches each directive against a fixed set   *)
(* of alternatives and a blank of the format against one or more           *)
(* whitespace characters; the whole string has to be consumed.             *)
(***************************************************************************)
FormatDate  == "%Y-%m-%d"
FormatT     == "%Y-%m-%dT%H:%M"
FormatSpace == "%Y-%m-%d %H:%M"

\* %Y : \d\d\d\d
MatchY(f) == Len(f) = 4 /\ \A i \in 1..4 : IsDigit(f[i])

\* %m : 1[0-2] | 0[1-9] | [1-9]
MatchMonth(f) ==
    \/ Len(f) = 2 /\ f[1] = "1" /\ f[2] \in {"0", "1", "2"}
    \/ Len(f) = 2 /\ f[1] = "0" /\ IsDigit(f[2]) /\ f[2] # "0"
    \/ Len(f) = 1 /\ IsDigit(f[1]) /\ f[1] # "0"

\* %d : 3[0-1] | [1-2]\d | 0[1-9] | [1-9] | ' '[1-9]
MatchDay(f) ==
    \/ Len(f) = 2 /\ f[1] = "3" /\ f[2] \in {"0", "1"}
    \/ Len(f) = 2 /\ f[1] \in {"1", "2"} /\ IsDigit(f[2])
    \/ Len(f) = 2 /\ f[1] = "0" /\ IsDigit(f[2]) /\ f[2] # "0"
    \/ Len(f) = 1 /\ IsDigit(f[1]) /\ f[1] # "0"
    \/ Len(f) = 2 /\ f[1] = " " /\ IsDigit(f[2]) /\ f[2] # "0"

\* %H : 2[0-3] | [0-1]\d | \d
MatchHour(f) ==
    \/ Len(f) = 2 /\ f[1] = "2" /\ f[2] \in {"0", "1", "2", "3"}
    \/ Len(f) = 2 /\ f[1] \in {"0", "1"} /\ IsDigit(f[2])
    \/ Len(f) = 1 /\ IsDigit(f[1])

\* %M : [0-5]\d | \d
MatchMinute(f) ==
    \/ Len(f) = 2 /\ f[1] \in {"0", "1", "2", "3", "4", "5"} /\ IsDigit(f[2])
    \/ Len(f) = 1 /\ IsDigit(f[1])

\* the numeric value of a matched field (a leading blank of %d is skipped)
FieldValue(f) == DigitsValue(SelectSeq(f, IsDigit))

\* The ways the string splits into the fields of the format: the lengths of
\* the month, day, separator, hour and minute parts.
Segmentations(s, fmt) ==
    LET n == Len(s)
        timed == fmt # FormatDate
        sepLens == IF ~timed THEN {0} ELSE IF fmt = FormatT THEN {1} ELSE 1..n
        timeLens == IF timed THEN {1, 2} ELSE {0}
    IN  { g \in [lm : {1, 2}, ld : {1, 2}, lw : sepLens, lh : timeLens, lmi : timeLens] :
            LET pm == 6
                pd == pm + g.lm + 1
                pw == pd + g.ld
                ph == pw + g.lw
                pmi == ph + g.lh + 1
            IN  /\ n = 4 + 1 + g.lm + 1 + g.ld + g.lw + (IF timed THEN g.lh + 1 + g.lmi ELSE 0)
                /\ MatchY(SubSeq(s, 1, 4))
                /\ s[5] = "-"
                /\ MatchMonth(SubSeq(s, pm, pm + g.lm - 1))
                /\ s[pm + g.lm] = "-"
                /\ MatchDay(SubSeq(s, pd, pd + g.ld - 1))
                /\ timed =>
                     /\ IF fmt = FormatT THEN s[pw] = "T"
                        ELSE \A i \in pw..(ph - 1) : IsSpace(s[i])
                     /\ MatchHour(SubSeq(s, ph, ph + g.lh - 1))
                     /\ s[ph + g.lh] = ":"
                     /\ MatchMinute(SubSeq(s, pmi, pmi + g.lmi - 1)) }

\* datetime.datetime.strptime(s, fmt): ok = FALSE stands for the ValueError
\* raised when the string does not match the format, or when the matched
\* fields are no date (year 0, day beyond the month's length).
Strptime(s, fmt) ==
    LET segs == Segmentations(s, fmt)
    IN  IF segs = {} THEN [ok |-> FALSE, dt |-> 0]
        ELSE LET g  == CHOOSE x \in segs : TRUE
                 pm == 6
                 pd == pm + g.lm + 1
                 ph == pd + g.ld + g.lw
                 pmi == ph + g.lh + 1
                 y  == FieldValue(SubSeq(s, 1, 4))
                 m  == FieldValue(SubSeq(s, pm, pm + g.lm - 1))
                 d  == FieldValue(SubSeq(s, pd, pd + g.ld - 1))
                 h  == IF fmt = FormatDate THEN 0 ELSE FieldValue(SubSeq(s, ph, ph + g.lh - 1))
                 mi == IF fmt = FormatDate THEN 0 ELSE FieldValue(SubSeq(s, pmi, pmi + g.lmi - 1))
             IN  IF y >= 1 /\ d <= DaysInMonth(y, m)
                 THEN [ok |-> TRUE, dt |-> DateTime(y, m, d, h, mi)]
                 ELSE [ok |-> FALSE, dt |-> 0]

(***************************************************************************)
(* parse_date and parse_duration.                                          *)
(***************************************************************************)
\* parse_date that probes the three formats in turn and takes the first that
\* parses
parse_date_Probe(date_str) ==
    LET s == Strip(date_str)
        fmt == IF Strptime(s, FormatT).ok THEN FormatT
               ELSE IF Strptime(s, FormatSpace).ok THEN FormatSpace
               ELSE FormatDate
        parsed == Strptime(s, fmt)
    IN  [ok |-> parsed.ok, dt |-> parsed.dt,
         time_included |-> fmt # FormatDate, format |-> fmt]

\* parse_date(date_str): the datetime, the time_included flag and the format
\* handed to the single strptime call; ok = FALSE stands for its ValueError.
parse_date(date_str) ==
    LET s == Strip(date_str)
        time_included == Contains(s, "T") \/ Contains(s, " ")
        parse_format ==
            IF time_included
            THEN (IF Contains(s, "T") THEN FormatT ELSE FormatSpace)
            ELSE FormatDate
        parsed == Strptime(s, parse_format)
    IN  [ok |-> parsed.ok, dt |-> parsed.dt,
         time_included |-> time_included, format |-> parse_format]

\* parse_duration whose 'h' form passes its number as minutes
parse_duration_HoursAsMinutes(duration_str) ==
    LET s == Strip(duration_str)
        parts == SplitColon(s)
        prefix == SubSeq(s, 1, Len(s) - 1)
        Fail(exc) == [raises |-> exc, td |-> 0]
        Ok(td) == [raises |-> "", td |-> td]
    IN  IF Contains(s, ":")
        THEN IF Len(parts) # 2 THEN Fail("ValueError")
             ELSE IF ~PyInt(parts[1]).ok \/ ~PyInt(parts[2]).ok THEN Fail("ValueError")
             ELSE Ok(TimeDelta(PyInt(parts[1]).val, PyInt(parts[2]).val))
        ELSE IF s = <<>> THEN Fail("IndexError")
        ELSE IF s[Len(s)] \in {"m", "h"}
             THEN (IF PyInt(prefix).ok THEN Ok(TimeDelta(0, PyInt(prefix).val))
                   ELSE Fail("ValueError"))
        ELSE Fail("ValueError")

\* parse_duration(duration_str): raises = "" with the timedelta in td, or the
\* name of the exception that leaves the function.
parse_duration(duration_str) ==
    LET s == Strip(duration_str)
        parts == SplitColon(s)
        prefix == SubSeq(s, 1, Len(s) - 1)
        Fail(exc) == [raises |-> exc, td |-> 0]
        Ok(td) == [raises |-> "", td |-> td]
    IN  IF Contains(s, ":")
        THEN IF Len(parts) # 2 THEN Fail("ValueError")
             ELSE IF ~PyInt(parts[1]).ok \/ ~PyInt(parts[2]).ok THEN Fail("ValueError")
             ELSE Ok(TimeDelta(PyInt(parts[1]).val, PyInt(parts[2]).val))
        ELSE IF s = <<>> THEN Fail("IndexError")
        ELSE IF s[Len(s)] = "m"
             THEN (IF PyInt(prefix).ok THEN Ok(TimeDelta(0, PyInt(prefix).val))
                   ELSE Fail("ValueError"))
        ELSE IF s[Len(s)] = "h"
             THEN (IF PyInt(prefix).ok THEN Ok(TimeDelta(PyInt(prefix).val, 0))
                   ELSE Fail("ValueError"))
        ELSE Fail("ValueError")

(***************************************************************************)
(* The calendar store.                                                     *)
(***************************************************************************)
\* the titles store.calendarsForEntityType_ returns, in the store's order
StoreCalendars == <<"Work", "Home", "Home">>

\* resolve_calendar_by_name: the position of the first calendar with the
\* title, 0 standing for None
resolve_calendar_by_name(calendar_name) ==
    IF \E i \in 1..Len(StoreCalendars) : StoreCalendars[i] = calendar_name
    THEN CHOOSE i \in 1..Len(StoreCalendars) :
            /\ StoreCalendars[i] = calendar_name
            /\ \A j \in 1..(i - 1) : StoreCalendars[j] # calendar_name
    ELSE 0

\* datetime.timestamp() of a naive datetime, for a local zone at UTC:
\* seconds since 1970-01-01T00:00
Timestamp(dt) == (dt - DateTime(1970, 1, 1, 0, 0)) * 60

(***************************************************************************)
(* Command lines.                                                          *)
(***************************************************************************)
MaxDay == 2
MaxHours == 1

TwoDigits(n) == <<DigitChars[(n \div 10) + 1], DigitChars[(n % 10) + 1]>>

June2024 == <<"2", "0", "2", "4", "-", "0", "6", "-">>

DateStr(d) == June2024 \o TwoDigits(d)

AtT(h) == <<"T">> \o TwoDigits(h) \o <<":", "0", "0">>

Blank == <<" ">>

DateStrs ==
    {DateStr(d) : d \in 1..MaxDay}
    \cup {DateStr(d) \o AtT(9) : d \in 1..MaxDay}
    \cup { DateStr(1) \o Blank \o <<"0", "9", ":", "0", "0">>,
           Blank \o DateStr(1) \o Blank,
           June2024 \o <<" ", "1">>,
           June2024 \o <<" ", "1">> \o AtT(9),
           <<"2", "0", "2", "4", "-", "1", "3", "-", "0", "1">> }

EndDateStrs ==
    {<<>>, Blank}
    \cup {DateStr(d) : d \in 1..MaxDay}
    \cup {DateStr(d) \o AtT(10) : d \in 1..MaxDay}
    \cup { DateStr(1) \o AtT(8), DateStr(1) \o AtT(9),
           June2024 \o <<" ", "1">> }

DurationStrs ==
    {<<TwoDigits(n)[2], "h">> : n \in 1..MaxHours}
    \cup { <<>>, Blank,
           <<"9", "0", "m">>,
           <<"1", ":", "3", "0">>,
           <<"-", "1", "h">>,
           <<"0", "m">>,
           <<"b", "o", "g", "u", "s">>,
           <<"1", ":", "2", ":", "3">>,
           <<"x", "m">> }

CalendarNames == {"Home", "Personal"}

Titles == {"Lunch"}

Runs == {1, 2}

ArgSets ==
    [calendar : CalendarNames, date : DateStrs, end_date : EndDateStrs,
     duration : DurationStrs, title : Titles]

(***************************************************************************)
(* State.  Two invocations are followed, the second started when the       *)
(* first has ended, on command lines that differ in --duration only.       *)
(***************************************************************************)
VARIABLES
    args,                    \* args[r]: the parsed command line of run r
    pc,                      \* pc[r]: the statement run r is at
    home_cal,                \* home_cal[r]: position of the resolved calendar, 0 for None
    start,                   \* start[r]
    was_time_included,       \* was_time_included[r]
    end,                     \* end[r]
    end_date_time_included,  \* end_date_time_included[r]
    exit_status,             \* exit_status[r]: the process's exit status once pc[r] = "exited"
    printed,                 \* printed[r]: the diagnostics printed, by error kind
    uncaught,                \* uncaught[r]: the exception that ended the run with a traceback, or ""
    store_calls,             \* store_calls[r]: the calls run r made on the calendar store
    create_args,             \* create_args[r]: the arguments of run r's create_event calls
    parse_log,               \* parse_log[r]: the strptime formats and parse_duration calls of run r
    events                   \* the events the store has saved

vars == <<args, pc, home_cal, start, was_time_included, end, end_date_time_included,
          exit_status, printed, uncaught, store_calls, create_args, parse_log, events>>

Init ==
    /\ args \in {a \in [Runs -> ArgSets] :
                   \A r \in Runs : a[r] = [a[1] EXCEPT !.duration = a[r].duration]}
    /\ pc = [r \in Runs |-> "resolve_calendar"]
    /\ home_cal = [r \in Runs |-> 0]
    /\ start = [r \in Runs |-> 0]
    /\ was_time_included = [r \in Runs |-> FALSE]
    /\ end = [r \in Runs |-> 0]
    /\ end_date_time_included = [r \in Runs |-> FALSE]
    /\ exit_status = [r \in Runs |-> 0]
    /\ printed = [r \in Runs |-> <<>>]
    /\ uncaught = [r \in Runs |-> ""]
    /\ store_calls = [r \in Runs |-> <<>>]
    /\ create_args = [r \in Runs |-> <<>>]
    /\ parse_log = [r \in Runs |-> <<>>]
    /\ events = <<>>

\* run r is the invocation in progress
Running(r) == \A q \in Runs : q < r => pc[q] = "exited"

\* print the diagnostic of an error kind and exit(1)
Die(r, kind) ==
    /\ printed' = [printed EXCEPT ![r] = Append(@, kind)]
    /\ exit_status' = [exit_status EXCEPT ![r] = 1]
    /\ pc' = [pc EXCEPT ![r] = "exited"]

\* an exception nothing catches: the interpreter prints the traceback and
\* the process ends with status 1
Crash(r, exc) ==
    /\ uncaught' = [uncaught EXCEPT ![r] = exc]
    /\ exit_status' = [exit_status EXCEPT ![r] = 1]
    /\ pc' = [pc EXCEPT ![r] = "exited"]

Goto(r, label) ==
    /\ pc' = [pc EXCEPT ![r] = label]
    /\ UNCHANGED <<exit_status, printed, uncaught>>

\* ResolveCalendar that asks the store for its calendars twice
ResolveCalendar_Twice(r) ==
    /\ Running(r) /\ pc[r] = "resolve_calendar"
    /\ store_calls' = [store_calls EXCEPT ![r] = @ \o <<"list_calendars", "list_calendars">>]
    /\ home_cal' = [home_cal EXCEPT ![r] = resolve_calendar_by_name(args[r].calendar)]
    /\ Goto(r, IF home_cal'[r] = 0 THEN "calendar_not_found" ELSE "parse_start")
    /\ UNCHANGED <<args, start, was_time_included, end, end_date_time_included,
                   create_args, parse_log, events>>

\* home_cal = resolve_calendar_by_name(store, args.calendar)
ResolveCalendar(r) ==
    /\ Running(r) /\ pc[r] = "resolve_calendar"
    /\ store_calls' = [store_calls EXCEPT ![r] = Append(@, "list_calendars")]
    /\ home_cal' = [home_cal EXCEPT ![r] = resolve_calendar_by_name(args[r].calendar)]
    /\ Goto(r, IF home_cal'[r] = 0 THEN "calendar_not_found" ELSE "parse_start")
    /\ UNCHANGED <<args, start, was_time_included, end, end_date_time_included,
                   create_args, parse_log, events>>

\* if home_cal is None: list the available calendars and exit(1)
CalendarNotFound(r) ==
    /\ Running(r) /\ pc[r] = "calendar_not_found"
    /\ store_calls' = [store_calls EXCEPT ![r] = Append(@, "list_calendars")]
    /\ Die(r, "CalendarNotFound")
    /\ UNCHANGED <<args, home_cal, start, was_time_included, end, end_date_time_included,
                   uncaught, create_args, parse_log, events>>

\* start, was_time_included = parse_date(start_date)
ParseStart(r) ==
    /\ Running(r) /\ pc[r] = "parse_start"
    /\ LET res == parse_date(args[r].date)
       IN  /\ parse_log' = [parse_log EXCEPT ![r] = Append(@, res.format)]
           /\ IF res.ok
              THEN /\ start' = [start EXCEPT ![r] = res.dt]
                   /\ was_time_included' = [was_time_included EXCEPT ![r] = res.time_included]
                   /\ Goto(r, "resolve_end")
              ELSE /\ Die(r, "InvalidDateFormat")
                   /\ UNCHANGED <<start, was_time_included, uncaught>>
    /\ UNCHANGED <<args, home_cal, end, end_date_time_included, store_calls,
                   create_args, events>>

\* if args.end_date: end, end_date_time_included = parse_date(args.end_date)
ParseEndDate(r) ==
    /\ Running(r) /\ pc[r] = "resolve_end"
    /\ args[r].end_date # <<>>
    /\ LET res == parse_date(args[r].end_date)
       IN  /\ parse_log' = [parse_log EXCEPT ![r] = Append(@, res.format)]
           /\ IF res.ok
              THEN /\ end' = [end EXCEPT ![r] = res.dt]
                   /\ end_date_time_included' =
                        [end_date_time_included EXCEPT ![r] = res.time_included]
                   /\ Goto(r, "check_time")
              ELSE /\ Die(r, "InvalidDateFormat")
                   /\ UNCHANGED <<end, end_date_time_included, uncaught>>
    /\ UNCHANGED <<args, home_cal, start, was_time_included, store_calls,
                   create_args, events>>

\* ParseDuration taken whenever a duration is given ("elif args.duration:")
ParseDuration_AnyStart(r) ==
    /\ Running(r) /\ pc[r] = "resolve_end"
    /\ args[r].end_date = <<>>
    /\ args[r].duration # <<>>
    /\ LET res == parse_duration(args[r].duration)
       IN  /\ parse_log' = [parse_log EXCEPT ![r] = Append(@, "parse_duration")]
           /\ IF res.raises = ""
              THEN /\ end' = [end EXCEPT ![r] = start[r] + res.td]
                   /\ end_date_time_included' = [end_date_time_included EXCEPT ![r] = TRUE]
                   /\ Goto(r, "check_time")
              ELSE IF res.raises = "ValueError"
              THEN /\ Die(r, "InvalidDurationFormat")
                   /\ UNCHANGED <<end, end_date_time_included, uncaught>>
              ELSE /\ Crash(r, res.raises)
                   /\ UNCHANGED <<end, end_date_time_included, printed>>
    /\ UNCHANGED <<args, home_cal, start, was_time_included, store_calls,
                   create_args, events>>

\* elif args.duration and was_time_included: end = start + parse_duration(args.duration)
ParseDuration(r) ==
    /\ Running(r) /\ pc[r] = "resolve_end"
    /\ args[r].end_date = <<>>
    /\ args[r].duration # <<>> /\ was_time_included[r]
    /\ LET res == parse_duration(args[r].duration)
       IN  /\ parse_log' = [parse_log EXCEPT ![r] = Append(@, "parse_duration")]
           /\ IF res.raises = ""
              THEN /\ end' = [end EXCEPT ![r] = start[r] + res.td]
                   /\ end_date_time_included' = [end_date_time_included EXCEPT ![r] = TRUE]
                   /\ Goto(r, "check_time")
              ELSE IF res.raises = "ValueError"
              THEN /\ Die(r, "InvalidDurationFormat")
                   /\ UNCHANGED <<end, end_date_time_included, uncaught>>
              ELSE /\ Crash(r, res.raises)
                   /\ UNCHANGED <<end, end_date_time_included, printed>>
    /\ UNCHANGED <<args, home_cal, start, was_time_included, store_calls,
                   create_args, events>>

\* else: end = start
DefaultEnd(r) ==
    /\ Running(r) /\ pc[r] = "resolve_end"
    /\ args[r].end_date = <<>>
    /\ ~(args[r].duration # <<>> /\ was_time_included[r])
    /\ end' = [end EXCEPT ![r] = start[r]]
    /\ Goto(r, "check_time")
    /\ UNCHANGED <<args, home_cal, start, was_time_included, end_date_time_included,
                   store_calls, create_args, parse_log, events>>

\* CheckTimeIncluded with the test left out
CheckTimeIncluded_Skipped(r) ==
    /\ Running(r) /\ pc[r] = "check_time"
    /\ Goto(r, "check_order")
    /\ UNCHANGED <<args, home_cal, start, was_time_included, end, end_date_time_included,
                   store_calls, create_args, parse_log, events>>

\* CheckTimeIncluded with the end-before-start test placed in front of it
CheckTimeIncluded_AfterOrder(r) ==
    /\ Running(r) /\ pc[r] = "check_time"
    /\ IF end[r] < start[r]
       THEN Die(r, "EndBeforeStart") /\ UNCHANGED uncaught
       ELSE IF was_time_included[r] /\ ~end_date_time_included[r]
       THEN Die(r, "InconsistentTimeSpecification") /\ UNCHANGED uncaught
       ELSE Goto(r, "check_order")
    /\ UNCHANGED <<args, home_cal, start, was_time_included, end, end_date_time_included,
                   store_calls, create_args, parse_log, events>>

\* if was_time_included and not end_date_time_included: exit(1)
CheckTimeIncluded(r) ==
    /\ Running(r) /\ pc[r] = "check_time"
    /\ IF was_time_included[r] /\ ~end_date_time_included[r]
       THEN Die(r, "InconsistentTimeSpecification") /\ UNCHANGED uncaught
       ELSE Goto(r, "check_order")
    /\ UNCHANGED <<args, home_cal, start, was_time_included, end, end_date_time_included,
                   store_calls, create_args, parse_log, events>>

\* CheckEndBeforeStart with the comparison left out
CheckEndBeforeStart_Skipped(r) ==
    /\ Running(r) /\ pc[r] = "check_order"
    /\ Goto(r, "create_event")
    /\ UNCHANGED <<args, home_cal, start, was_time_included, end, end_date_time_included,
                   store_calls, create_args, parse_log, events>>

\* if end < start: exit(1)
CheckEndBeforeStart(r) ==
    /\ Running(r) /\ pc[r] = "check_order"
    /\ IF end[r] < start[r]
       THEN Die(r, "EndBeforeStart") /\ UNCHANGED uncaught
       ELSE Goto(r, "create_event")
    /\ UNCHANGED <<args, home_cal, start, was_time_included, end, end_date_time_included,
                   store_calls, create_args, parse_log, events>>

\* create_event that does not look at err: it returns normally whether or not
\* the store saved the event
create_event_ErrIgnored(r, calendar, is_all_day_event, start_dt, end_dt, title) ==
    /\ store_calls' = [store_calls EXCEPT ![r] = Append(@, "create_event")]
    /\ create_args' = [create_args EXCEPT ![r] =
                         Append(@, [calendar |-> calendar,
                                    is_all_day_event |-> is_all_day_event,
                                    start_dt |-> start_dt, end_dt |-> end_dt,
                                    title |-> title])]
    /\ \E err \in BOOLEAN :
         events' = IF err THEN events
                   ELSE Append(events, [calendar |-> calendar,
                                        startDate |-> Timestamp(start_dt),
                                        endDate |-> Timestamp(end_dt),
                                        title |-> title,
                                        allDay |-> is_all_day_event])
    /\ pc' = [pc EXCEPT ![r] = "exited"]
    /\ exit_status' = [exit_status EXCEPT ![r] = 0]
    /\ UNCHANGED <<printed, uncaught>>

\* create_event(store, calendar, is_all_day_event, start_dt, end_dt, title), as
\* called by run r: err is what store.saveEvent_span_error_ reports.  The
\* exception raised on err is caught nowhere; on a normal return the script
\* has reached its end.
create_event(r, calendar, is_all_day_event, start_dt, end_dt, title) ==
    LET new_event == [calendar |-> calendar,
                      startDate |-> Timestamp(start_dt),
                      endDate |-> Timestamp(end_dt),
                      title |-> title,
                      allDay |-> is_all_day_event]
    IN  /\ store_calls' = [store_calls EXCEPT ![r] = Append(@, "create_event")]
        /\ create_args' = [create_args EXCEPT ![r] =
                             Append(@, [calendar |-> calendar,
                                        is_all_day_event |-> is_all_day_event,
                                        start_dt |-> start_dt, end_dt |-> end_dt,
                                        title |-> title])]
        /\ \E err \in BOOLEAN :
             IF err
             THEN /\ Crash(r, "SaveError")
                  /\ UNCHANGED <<events, printed>>
             ELSE /\ events' = Append(events, new_event)
                  /\ pc' = [pc EXCEPT ![r] = "exited"]
                  /\ exit_status' = [exit_status EXCEPT ![r] = 0]
                  /\ UNCHANGED <<printed, uncaught>>

\* CreateEvent with the all-day flag taken from the end's time flag
CreateEvent_AllDayFromEnd(r) ==
    /\ Running(r) /\ pc[r] = "create_event"
    /\ create_event(r, home_cal[r], ~end_date_time_included[r], start[r], end[r], args[r].title)
    /\ UNCHANGED <<args, home_cal, start, was_time_included, end, end_date_time_included,
                   parse_log>>

\* event = create_event(store, home_cal, not was_time_included, start, end, title)
CreateEvent(r) ==
    /\ Running(r) /\ pc[r] = "create_event"
    /\ create_event(r, home_cal[r], ~was_time_included[r], start[r], end[r], args[r].title)
    /\ UNCHANGED <<args, home_cal, start, was_time_included, end, end_date_time_included,
                   parse_log>>

Next ==
    \E r \in Runs :
        \/ ResolveCalendar(r)
        \/ CalendarNotFound(r)
        \/ ParseStart(r)
        \/ ParseEndDate(r)
        \/ ParseDuration(r)
        \/ DefaultEnd(r)
        \/ CheckTimeIncluded(r)
        \/ CheckEndBeforeStart(r)
        \/ CreateEvent(r)

Spec == Init /\ [][Next]_vars

(***************************************************************************)
(* Vocabulary of the properties.                                           *)
(***************************************************************************)
Exited(r) == pc[r] = "exited"

\* the names start and end are bound once assigned; a datetime is never 0
StartBound(r) == start[r] # 0

EndBound(r) == end[r] # 0

Created(r) == create_args[r] # <<>>

Reports(r) == Len(printed[r]) + (IF uncaught[r] = "" THEN 0 ELSE 1)

DurationParsed(r) == \E i \in 1..Len(parse_log[r]) : parse_log[r][i] = "parse_duration"

Bogus == <<"b", "o", "g", "u", "s">>

(***************************************************************************)
(* C1                                                                      *)
(***************************************************************************)
\* C1, as stated: create_event is only called with end >= start, and a run
\* whose resolved end is earlier than its start fails with EndBeforeStart,
\* exits with code 1 and never calls create_event; end = start is not
\* rejected as end-before-start.
C1_EndBeforeStartAlwaysReported ==
    \A r \in Runs :
        /\ \A i \in 1..Len(create_args[r]) :
              create_args[r][i].end_dt >= create_args[r][i].start_dt
        /\ (Exited(r) /\ EndBound(r) /\ end[r] < start[r]) =>
              /\ printed[r] = <<"EndBeforeStart">>
              /\ exit_status[r] = 1
              /\ ~Created(r)
        /\ (Exited(r) /\ EndBound(r) /\ end[r] = start[r]) =>
              printed[r] # <<"EndBeforeStart">>

\* C1, amended: create_event is only called with end >= start; a run whose
\* resolved end is earlier than its start exits with code 1 without calling
\* create_event, reporting EndBeforeStart, or InconsistentTimeSpecification
\* when the start is timed and the resolved end has no time-of-day (that
\* check comes first); end = start is not rejected as end-before-start.
C1_EndNotBeforeStart ==
    \A r \in Runs :
        /\ \A i \in 1..Len(create_args[r]) :
              create_args[r][i].end_dt >= create_args[r][i].start_dt
        /\ (Exited(r) /\ EndBound(r) /\ end[r] < start[r]) =>
              /\ printed[r] = IF was_time_included[r] /\ ~end_date_time_included[r]
                              THEN <<"InconsistentTimeSpecification">>
                              ELSE <<"EndBeforeStart">>
              /\ exit_status[r] = 1
              /\ ~Created(r)
        /\ (Exited(r) /\ EndBound(r) /\ end[r] = start[r]) =>
              printed[r] # <<"EndBeforeStart">>

\* run 1 is refused for start + (-1h) < start, run 2 created with end = start (0m)
C1_Witness ==
    /\ Exited(1) /\ args[1].duration = <<"-", "1", "h">> /\ args[1].end_date = <<>>
    /\ EndBound(1) /\ end[1] = start[1] - 60
    /\ printed[1] = <<"EndBeforeStart">> /\ ~Created(1)
    /\ Exited(2) /\ args[2].duration = <<"0", "m">>
    /\ Created(2) /\ create_args[2][1].end_dt = create_args[2][1].start_dt

(***************************************************************************)
(* C2                                                                      *)
(***************************************************************************)
\* C2: an event handed to create_event for a timed start has a timed end; a
\* timed start whose end resolves without a time (an untimed end-date, or
\* neither end-date nor duration) ends in InconsistentTimeSpecification with
\* exit code 1 and no create_event call.
C2_TimedStartHasTimedEnd ==
    \A r \in Runs :
        /\ (Created(r) /\ was_time_included[r]) => end_date_time_included[r]
        /\ (Exited(r) /\ was_time_included[r] /\ EndBound(r) /\ ~end_date_time_included[r]) =>
              /\ printed[r] = <<"InconsistentTimeSpecification">>
              /\ exit_status[r] = 1
              /\ ~Created(r)
        /\ (Exited(r) /\ was_time_included[r]
              /\ args[r].end_date = <<>> /\ args[r].duration = <<>>) =>
              /\ printed[r] = <<"InconsistentTimeSpecification">>
              /\ exit_status[r] = 1
              /\ ~Created(r)

\* run 1: timed start, no end-date, no duration; run 2: the same with 1h
C2_Witness ==
    /\ Exited(1) /\ was_time_included[1]
    /\ args[1].end_date = <<>> /\ args[1].duration = <<>>
    /\ printed[1] = <<"InconsistentTimeSpecification">>
    /\ Exited(2) /\ Created(2) /\ was_time_included[2] /\ end_date_time_included[2]

(***************************************************************************)
(* C3                                                                      *)
(***************************************************************************)
C3_State ==
    /\ \A r \in Runs :
        \* a report ends the run at once, with a nonzero status
        /\ Reports(r) > 0 => (Exited(r) /\ exit_status[r] # 0)
        \* the five kinds detected before the write never reach create_event
        /\ (printed[r] # <<>> \/ uncaught[r] = "IndexError") => ~Created(r)
        /\ \A i \in 1..Len(printed[r]) :
              printed[r][i] \in {"CalendarNotFound", "InvalidDateFormat",
                                 "InvalidDurationFormat",
                                 "InconsistentTimeSpecification", "EndBeforeStart"}
        /\ uncaught[r] = "SaveError" => Created(r)
        \* status 0 only after create_event returned normally
        /\ (Exited(r) /\ exit_status[r] = 0) => (Created(r) /\ Reports(r) = 0)
        /\ (Exited(r) /\ exit_status[r] # 0) => Reports(r) > 0
        \* an unknown calendar or a malformed start date is such a run
        /\ (Exited(r) /\ args[r].calendar = "Personal") =>
              (printed[r] = <<"CalendarNotFound">> /\ exit_status[r] = 1)
        /\ (Exited(r) /\ args[r].calendar = "Home" /\ args[r].date = June2024 \o <<" ", "1">>) =>
              (printed[r] = <<"InvalidDateFormat">> /\ exit_status[r] = 1)
    \* the store holds one event per run that ended with status 0
    /\ Len(events) = Cardinality({r \in Runs : Exited(r) /\ exit_status[r] = 0})

C3_Step ==
    \A r \in Runs :
        Exited(r) =>
            /\ pc'[r] = pc[r] /\ exit_status'[r] = exit_status[r]
            /\ printed'[r] = printed[r] /\ uncaught'[r] = uncaught[r]
            /\ store_calls'[r] = store_calls[r] /\ create_args'[r] = create_args[r]

\* C3: a run that reports an error (one of the five printed kinds, or the
\* exception of a failed save) has ended with a nonzero exit status and does
\* nothing afterwards; the five printed kinds never call create_event; exit
\* status 0 occurs only when create_event was called and the store saved the
\* event.
C3_ErrorsEndTheRun == []C3_State /\ [][C3_Step]_vars

\* run 1 ends on a failed save, run 2 (same command line) saves its event
C3_Witness ==
    /\ Exited(1) /\ uncaught[1] = "SaveError" /\ exit_status[1] = 1
    /\ Exited(2) /\ exit_status[2] = 0 /\ Len(events) = 1

(***************************************************************************)
(* C4                                                                      *)
(***************************************************************************)
\* C4: once parse_duration has been called, either a
\* Duration was returned (the end is resolved) or the failure was the
\* InvalidDurationFormat the caller reports; nothing else leaves
\* parse_duration.
C4_OnlyInvalidDurationFormatEscapes ==
    \A r \in Runs :
        DurationParsed(r) =>
            \/ EndBound(r)
            \/ (printed[r] = <<"InvalidDurationFormat">> /\ uncaught[r] = "")

(***************************************************************************)
(* C5                                                                      *)
(***************************************************************************)
\* what a run did, leaving aside whether the store then saved the event
Outcome(r) ==
    [printed |-> printed[r], submitted |-> create_args[r],
     raised |-> IF uncaught[r] = "SaveError" THEN "" ELSE uncaught[r]]

\* C5: parse_duration is called only when no end-date is given and the start
\* is timed; two runs that differ only in the duration string, with an
\* end-date given or a start without time, have the same outcome; a
\* date-only start without end-date is created with end = start.
C5_DurationOnlyMattersForTimedStartWithoutEnd ==
    \A r1 \in Runs : \A r2 \in Runs :
        /\ DurationParsed(r1) => (args[r1].end_date = <<>> /\ was_time_included[r1])
        /\ (Exited(r1) /\ Exited(r2)
              /\ (args[r1].end_date # <<>> \/ ~was_time_included[r1])) =>
              /\ Outcome(r1) = Outcome(r2)
              /\ printed[r1] # <<"InvalidDurationFormat">>
        /\ (Exited(r1) /\ StartBound(r1) /\ ~was_time_included[r1]
              /\ args[r1].end_date = <<>>) =>
              /\ Created(r1)
              /\ create_args[r1][1].end_dt = create_args[r1][1].start_dt

\* a date-only start without end-date, once with a malformed duration and
\* once without duration: the same event is submitted
C5_Witness ==
    /\ Exited(1) /\ Exited(2)
    /\ args[1].duration = Bogus /\ args[2].duration = <<>>
    /\ args[1].end_date = <<>>
    /\ StartBound(1) /\ ~was_time_included[1]
    /\ Created(1) /\ create_args[2] = create_args[1]

(***************************************************************************)
(* C6                                                                      *)
(***************************************************************************)
\* well-formed durations and the minutes they stand for: 60*H+M for H:M,
\* N for Nm, 60*N for Nh
C6_Durations ==
    { <<<<"1", ":", "3", "0">>, 60 * 1 + 30>>,
      <<<<"9", "0", "m">>, 90>>,
      <<<<"0", "m">>, 0>>,
      <<<<"-", "1", "h">>, 60 * (0 - 1)>> }
    \cup { <<<<TwoDigits(n)[2], "h">>, 60 * n>> : n \in 1..MaxHours }

\* C6: with a timed start, no end-date and a well-formed duration, the end is
\* start + duration and carries a time; 1:30 and 90m give the same end;
\* 2024-06-01T09:00 plus 1h is 2024-06-01T10:00.
C6_EndIsStartPlusDuration ==
    \A r \in Runs :
        /\ \A e \in C6_Durations :
              (was_time_included[r] /\ args[r].end_date = <<>> /\ args[r].duration = e[1]
                 /\ pc[r] # "resolve_end") =>
                 /\ EndBound(r)
                 /\ end[r] = start[r] + e[2]
                 /\ end_date_time_included[r]
                 /\ printed[r] \in {<<>>, <<"EndBeforeStart">>}
        /\ (EndBound(r) /\ args[r].date = DateStr(1) \o AtT(9) /\ args[r].end_date = <<>>
              /\ args[r].duration = <<"1", "h">>) =>
              end[r] = DateTime(2024, 6, 1, 10, 0)
        /\ \A q \in Runs :
              (EndBound(r) /\ EndBound(q) /\ was_time_included[r] /\ args[r].end_date = <<>>
                 /\ args[r].duration = <<"1", ":", "3", "0">>
                 /\ args[q].duration = <<"9", "0", "m">>) =>
                 end[r] = end[q]

\* 2024-06-01T09:00 with 1:30 in run 1 and 90m in run 2: both end at 10:30
C6_Witness ==
    /\ Exited(1) /\ Exited(2)
    /\ args[1].date = DateStr(1) \o AtT(9) /\ args[1].end_date = <<>>
    /\ args[1].duration = <<"1", ":", "3", "0">> /\ args[2].duration = <<"9", "0", "m">>
    /\ Created(1) /\ Created(2)
    /\ create_args[1][1].end_dt = DateTime(2024, 6, 1, 10, 30)
    /\ create_args[2][1].end_dt = DateTime(2024, 6, 1, 10, 30)

(***************************************************************************)
(* C7                                                                      *)
(***************************************************************************)
Count(calls, c) == Cardinality({i \in 1..Len(calls) : calls[i] = c})

LookupsBeforeWrite(calls) ==
    \A i \in 1..Len(calls) : \A j \in 1..Len(calls) :
        (calls[i] = "create_event" /\ calls[j] = "list_calendars") => j < i

\* C7, as stated: a run makes at most one lookup call and at most one write
\* call on the store, the lookup before the write.
C7_OneLookupOneWrite ==
    \A r \in Runs :
        /\ Count(store_calls[r], "list_calendars") <= 1
        /\ Count(store_calls[r], "create_event") <= 1
        /\ Len(store_calls[r]) <= 2
        /\ LookupsBeforeWrite(store_calls[r])

\* C7, amended: a run accesses the store at most twice: one lookup call, then
\* either a second lookup call (only when the calendar was not found, to list
\* the available calendars) or at most one write call; every lookup comes
\* before the write.
C7_AtMostTwoStoreCalls ==
    \A r \in Runs :
        /\ Len(store_calls[r]) <= 2
        /\ Count(store_calls[r], "create_event") <= 1
        /\ LookupsBeforeWrite(store_calls[r])
        /\ Count(store_calls[r], "list_calendars") = 2 =>
              (home_cal[r] = 0 /\ printed[r] = <<"CalendarNotFound">>)
        /\ Created(r) => store_calls[r] = <<"list_calendars", "create_event">>
        /\ Exited(r) => store_calls[r] # <<>>

\* a run that did not find its calendar and listed the calendars again
C7_Witness ==
    \E r \in Runs :
        /\ Exited(r) /\ printed[r] = <<"CalendarNotFound">>
        /\ store_calls[r] = <<"list_calendars", "list_calendars">>

(***************************************************************************)
(* C8                                                                      *)
(***************************************************************************)
HasTimeOfDay(s) == Contains(Strip(s), "T") \/ Contains(Strip(s), " ")

\* C8: every event handed to create_event (and every event saved) is all-day
\* exactly when the start was given without a time, whatever the end; a
\* date-only start with a timed end not before it is submitted as all-day; a
\* date-only start without end-date and duration is submitted with
\* end = start, all-day.
C8_AllDayIffStartHasNoTime ==
    /\ \A r \in Runs :
        /\ \A i \in 1..Len(create_args[r]) :
              /\ create_args[r][i].is_all_day_event = ~HasTimeOfDay(args[r].date)
              /\ create_args[r][i].start_dt = start[r]
              /\ create_args[r][i].end_dt = end[r]
        /\ (Exited(r) /\ StartBound(r) /\ ~HasTimeOfDay(args[r].date)
              /\ EndBound(r) /\ end_date_time_included[r] /\ end[r] >= start[r]) =>
              (Created(r) /\ create_args[r][1].is_all_day_event)
        /\ (Exited(r) /\ StartBound(r) /\ ~HasTimeOfDay(args[r].date)
              /\ args[r].end_date = <<>> /\ args[r].duration = <<>>) =>
              /\ Created(r)
              /\ create_args[r][1].is_all_day_event
              /\ create_args[r][1].end_dt = create_args[r][1].start_dt
    /\ \A i \in 1..Len(events) : events[i].allDay = ~HasTimeOfDay(args[1].date)

\* start 2024-06-01, end 2024-06-01T10:00: submitted as an all-day event
C8_Witness ==
    \E r \in Runs :
        /\ Exited(r) /\ args[r].date = DateStr(1) /\ args[r].end_date = DateStr(1) \o AtT(10)
        /\ Created(r) /\ create_args[r][1].is_all_day_event
        /\ create_args[r][1].end_dt = DateTime(2024, 6, 1, 10, 0)
        /\ end_date_time_included[r]

(***************************************************************************)
(* C9                                                                      *)
(***************************************************************************)
\* the format the trimmed string's syntax selects
SyntaxFormat(s) ==
    IF Contains(Strip(s), "T") THEN FormatT
    ELSE IF Contains(Strip(s), " ") THEN FormatSpace
    ELSE FormatDate

StrptimeCalls(r) ==
    Cardinality({i \in 1..Len(parse_log[r]) : parse_log[r][i] # "parse_duration"})

\* well-formed start strings of the command lines and their datetimes
C9_Dates ==
    { <<DateStr(d), DateTime(2024, 6, d, 0, 0)>> : d \in 1..MaxDay }
    \cup { <<DateStr(d) \o AtT(9), DateTime(2024, 6, d, 9, 0)>> : d \in 1..MaxDay }
    \cup { <<DateStr(1) \o Blank \o <<"0", "9", ":", "0", "0">>, DateTime(2024, 6, 1, 9, 0)>>,
           <<Blank \o DateStr(1) \o Blank, DateTime(2024, 6, 1, 0, 0)>>,
           <<June2024 \o <<" ", "1">> \o AtT(9), DateTime(2024, 6, 1, 9, 0)>> }

\* start strings that do not match the format their syntax selects
C9_Mismatches ==
    { June2024 \o <<" ", "1">>,
      <<"2", "0", "2", "4", "-", "1", "3", "-", "0", "1">> }

\* C9: each parse_date call hands strptime the one format the trimmed
\* string's syntax selects and no other; has_time holds exactly when the
\* string has a 'T' or a blank; a date-only string yields midnight; a string
\* that does not match the selected format fails with InvalidDateFormat.
C9_OneFormatBySyntax ==
    \A r \in Runs :
        /\ Len(parse_log[r]) >= 1 =>
              /\ parse_log[r][1] = SyntaxFormat(args[r].date)
              /\ StartBound(r) \/ (printed[r] = <<"InvalidDateFormat">> /\ Exited(r))
              /\ \A e \in C9_Dates : args[r].date = e[1] => start[r] = e[2]
              /\ args[r].date \in C9_Mismatches => ~StartBound(r)
        /\ StrptimeCalls(r) <= (IF args[r].end_date = <<>> THEN 1 ELSE 2)
        /\ (StrptimeCalls(r) = 2) =>
              /\ parse_log[r][2] = SyntaxFormat(args[r].end_date)
              /\ EndBound(r) => (end_date_time_included[r] <=> HasTimeOfDay(args[r].end_date))
        /\ StartBound(r) =>
              /\ was_time_included[r] <=> HasTimeOfDay(args[r].date)
              /\ ~was_time_included[r] => start[r] % 1440 = 0

\* "2024-06- 1" has a blank and no 'T': only the blank format is tried, and
\* the run fails, although the string is a date for %Y-%m-%d
C9_Witness ==
    \E r \in Runs :
        /\ Exited(r) /\ args[r].date = June2024 \o <<" ", "1">>
        /\ parse_log[r] = <<FormatSpace>>
        /\ printed[r] = <<"InvalidDateFormat">>
        /\ Strptime(Strip(args[r].date), FormatDate).ok

(***************************************************************************)
(* C10                                                                     *)
(***************************************************************************)
\* C10: a run reports at most one error, a failing run exactly one, and it is
\* the error of the first stage that fails: calendar lookup, start-date
\* parse, end-date or duration parse, time consistency, end before start.
C10_FirstFailureReported ==
    \A r \in Runs :
        /\ Reports(r) <= 1
        /\ (Exited(r) /\ exit_status[r] # 0) => Reports(r) = 1
        /\ (Exited(r) /\ args[r].calendar = "Personal") =>
              (printed[r] = <<"CalendarNotFound">> /\ parse_log[r] = <<>>)
        /\ printed[r] = <<"CalendarNotFound">> => (home_cal[r] = 0 /\ parse_log[r] = <<>>)
        /\ printed[r] = <<"InvalidDateFormat">> =>
              /\ home_cal[r] # 0 /\ ~EndBound(r)
              /\ \/ ~StartBound(r) /\ Len(parse_log[r]) = 1
                 \/ StartBound(r) /\ Len(parse_log[r]) = 2 /\ args[r].end_date # <<>>
        /\ (printed[r] = <<"InvalidDurationFormat">> \/ uncaught[r] = "IndexError") =>
              (home_cal[r] # 0 /\ StartBound(r) /\ ~EndBound(r) /\ DurationParsed(r))
        /\ printed[r] = <<"InconsistentTimeSpecification">> =>
              (EndBound(r) /\ was_time_included[r] /\ ~end_date_time_included[r])
        /\ printed[r] = <<"EndBeforeStart">> =>
              /\ EndBound(r) /\ end[r] < start[r]
              /\ ~(was_time_included[r] /\ ~end_date_time_included[r])
        /\ (Exited(r) /\ EndBound(r) /\ was_time_included[r] /\ ~end_date_time_included[r]) =>
              printed[r] = <<"InconsistentTimeSpecification">>
        /\ (Exited(r) /\ home_cal[r] # 0 /\ args[r].date = DateStr(1) \o AtT(9)
              /\ args[r].end_date = DateStr(1)) =>
              printed[r] = <<"InconsistentTimeSpecification">>

\* start 2024-06-01T09:00 with the earlier date-only end 2024-06-01
C10_Witness ==
    \E r \in Runs :
        /\ Exited(r) /\ args[r].date = DateStr(1) \o AtT(9) /\ args[r].end_date = DateStr(1)
        /\ EndBound(r) /\ end[r] < start[r]
        /\ printed[r] = <<"InconsistentTimeSpecification">> /\ uncaught[r] = ""

====
